---------------------------- MODULE Spec2Model ----------------------------
(***************************************************************************)
(* A model of go-ipset: the set specification builder (IPSetSpec and its   *)
(* option functions), IPSet.Validate, and the command runner that turns    *)
(* each operation into one `ipset` invocation through the injected exec    *)
(* capability and decodes the XML listing it prints.                       *)
(*                                                                         *)
(* Strings are TLA+ strings.  A Go error is the sequence of the pieces     *)
(* fmt.Errorf glues together (the format's literal parts and the rendered  *)
(* arguments, in order); the nil error is the empty sequence.              *)
(***************************************************************************)
EXTENDS Integers, Sequences, FiniteSets, TLC

VARIABLES
    pc,       \* position of the caller that builds and validates a specification
    setters,  \* the option functions handed to IPSetSpec
    set,      \* the *IPSet the caller holds
    verr,     \* what the caller's last set.Validate() returned
    log,      \* the exec capability's record of executed commands (cmd, argv...)
    hist,     \* one record per operation call made on the runner, in call order
    flags,    \* the current value of the package variable IPSetCmdMandatoryArgs
    held,     \* the *IPSetEntry the caller holds
    calls,    \* the operation call each concurrent caller is in, and how far
    lk        \* each process's locker, and whether it holds the file lock

vars == <<pc, setters, set, verr, log, hist, flags, held, calls, lk>>

---------------------------------------------------------------------------
(* Bounds of the model. *)

\* the longest setters list handed to IPSetSpec
MaxSetters == 3
\* the number of operation calls made on one runner
MaxCalls == 2
\* the number of Lock calls made on one locker
MaxLockCalls == 2

---------------------------------------------------------------------------
(* Types and constants of the package. *)

HashIP == "hash:ip"
ProtocolFamilyIPv4 == "inet"
ProtocolFamilyIPv6 == "inet6"
ValidIPSetTypes == <<HashIP>>
IPSetCmd == "ipset"
IPSetCmdMandatoryArgs == <<"-o", "xml">>
DefaultHashSize == 1024
DefaultMaxElement == 65536

\* the nil error
NoErr == <<>>

\* A Go slice: nil, or a (possibly empty) list of values.
NilSlice == [nil |-> TRUE, v |-> <<>>]
EmptySlice == [nil |-> FALSE, v |-> <<>>]
append(slice, x) == [nil |-> FALSE, v |-> Append(slice.v, x)]

---------------------------------------------------------------------------
(* strconv.Itoa and the %d verb: the decimal rendering of an int. *)

Digit(d) ==
    CASE d = 0 -> "0" [] d = 1 -> "1" [] d = 2 -> "2" [] d = 3 -> "3"
      [] d = 4 -> "4" [] d = 5 -> "5" [] d = 6 -> "6" [] d = 7 -> "7"
      [] d = 8 -> "8" [] d = 9 -> "9"

RECURSIVE Itoa(_)
Itoa(n) ==
    IF n < 0 THEN "-" \o Itoa(-n)
    ELSE IF n < 10 THEN Digit(n)
    ELSE Itoa(n \div 10) \o Digit(n % 10)

---------------------------------------------------------------------------
(* The specification builder. *)

\* The zero value of the IPSet struct.  WithComment is the flag the comment
\* option sets; the struct in ipset.go has no such field.
ZeroIPSet ==
    [Name |-> "", SetType |-> "", HashFamily |-> "", HashSize |-> 0,
     MaxElement |-> 0, Entries |-> NilSlice, WithComment |-> FALSE]

\* An option function is the record of what it was built from.
IPSetName(name) == [opt |-> "Name", s |-> name, n |-> 0]
IPSetType(setType) == [opt |-> "Type", s |-> setType, n |-> 0]
IPSetHashFamily(family) == [opt |-> "HashFamily", s |-> family, n |-> 0]
IPSetHashSize(size) == [opt |-> "HashSize", s |-> "", n |-> size]
IPSetMaxElement(max) == [opt |-> "MaxElement", s |-> "", n |-> max]
IPSetWithComment == [opt |-> "WithComment", s |-> "", n |-> 0]

\* setter(set): what calling the option function does to the specification
ApplySetter(setter, st) ==
    CASE setter.opt = "Name" -> [st EXCEPT !.Name = setter.s]
      [] setter.opt = "Type" -> [st EXCEPT !.SetType = setter.s]
      [] setter.opt = "HashFamily" -> [st EXCEPT !.HashFamily = setter.s]
      [] setter.opt = "HashSize" -> [st EXCEPT !.HashSize = setter.n]
      [] setter.opt = "MaxElement" -> [st EXCEPT !.MaxElement = setter.n]
      [] setter.opt = "WithComment" -> [st EXCEPT !.WithComment = TRUE]

IPSetSpecDefaultsNoFamily ==
    [ZeroIPSet EXCEPT !.SetType = HashIP,
                      !.HashSize = DefaultHashSize,
                      !.MaxElement = DefaultMaxElement]

IPSetSpecDefaults ==
    [ZeroIPSet EXCEPT !.SetType = HashIP,
                      !.HashFamily = ProtocolFamilyIPv4,
                      !.HashSize = DefaultHashSize,
                      !.MaxElement = DefaultMaxElement]

RECURSIVE ApplySetters(_, _)
ApplySetters(ss, st) ==
    IF ss = <<>> THEN st
    ELSE ApplySetters(Tail(ss), ApplySetter(Head(ss), st))

IPSetSpec(ss) == ApplySetters(ss, IPSetSpecDefaults)

---------------------------------------------------------------------------
(* IPSet.Validate. *)

validateIPSetType(st) ==
    \E i \in 1..Len(ValidIPSetTypes) : st.SetType = ValidIPSetTypes[i]

validateHashFamilyOnlyIPv4(st) ==
    st.HashFamily = ProtocolFamilyIPv4

validateHashFamily(st) ==
    \/ st.HashFamily = ProtocolFamilyIPv4
    \/ st.HashFamily = ProtocolFamilyIPv6

ValidateSizeFirst(st) ==
    IF st.HashSize <= 0
    THEN <<"invalid Hash Size value ", Itoa(st.HashSize), ", should be >0">>
    ELSE IF st.MaxElement <= 0
    THEN <<"invalid Max Element value ", Itoa(st.MaxElement), ", should be >0">>
    ELSE IF st.SetType = HashIP /\ ~validateHashFamily(st)
    THEN <<"invalid Hash Family">>
    ELSE IF ~validateIPSetType(st)
    THEN <<"invalid Set Type">>
    ELSE NoErr

Validate(st) ==
    IF st.SetType = HashIP /\ ~validateHashFamily(st)
    THEN <<"invalid Hash Family">>
    ELSE IF ~validateIPSetType(st)
    THEN <<"invalid Set Type">>
    ELSE IF st.HashSize <= 0
    THEN <<"invalid Hash Size value ", Itoa(st.HashSize), ", should be >0">>
    ELSE IF st.MaxElement <= 0
    THEN <<"invalid Max Element value ", Itoa(st.MaxElement), ", should be >0">>
    ELSE NoErr

---------------------------------------------------------------------------
(* The XML listing the ipset command prints, as the token stream            *)
(* encoding/xml reads: start elements (with the name attribute of an       *)
(* <ipset>), end elements and character data.                              *)

Open(tag) == [k |-> "open", tag |-> tag, val |-> ""]
OpenSet(name) == [k |-> "open", tag |-> "ipset", val |-> name]
Close(tag) == [k |-> "close", tag |-> tag, val |-> ""]
Text(s) == [k |-> "text", tag |-> "", val |-> s]
Elem(tag, s) == <<Open(tag), Text(s), Close(tag)>>

\* The ints a listing's hashsize and maxelem texts are read back to: the
\* inverse of Itoa on the sizes the model's documents and specifications use.
KnownInts == {-1, 0, 128, 256, DefaultHashSize, DefaultMaxElement}

\* strconv.ParseInt as xml's copyValue uses it: the empty text is 0
AtoiOK(s) == s = "" \/ \E n \in KnownInts : Itoa(n) = s
Atoi(s) == IF s = "" THEN 0 ELSE CHOOSE n \in KnownInts : Itoa(n) = s

\* The decoder's state while it walks the document into an IPSets value.
DecodeStart ==
    [stack |-> <<>>, done |-> FALSE, err |-> NoErr, buf |-> "",
     List |-> NilSlice, cur |-> ZeroIPSet,
     member |-> [Element |-> "", Comment |-> ""]]

\* the path of the open elements below the root element
Rel(stack) == IF stack = <<>> THEN <<>> ELSE Tail(stack)

PathIPSet == <<"ipset">>
PathType == <<"ipset", "type">>
PathFamily == <<"ipset", "header", "family">>
PathHashSize == <<"ipset", "header", "hashsize">>
PathMaxElem == <<"ipset", "header", "maxelem">>
PathMember == <<"ipset", "members", "member">>
PathElem == <<"ipset", "members", "member", "elem">>
PathComment == <<"ipset", "members", "member", "comment">>

FieldPaths ==
    {PathType, PathFamily, PathHashSize, PathMaxElem, PathElem, PathComment}

DecodeOpen(d, tok) ==
    LET stack == Append(d.stack, tok.tag)
        rel == Rel(stack)
    IN  IF d.stack # <<>> /\ rel = PathIPSet
        THEN [d EXCEPT !.stack = stack,
                       !.cur = [ZeroIPSet EXCEPT !.Name = tok.val]]
        ELSE IF rel = PathMember
        THEN [d EXCEPT !.stack = stack,
                       !.member = [Element |-> "", Comment |-> ""]]
        ELSE IF rel \in FieldPaths
        THEN [d EXCEPT !.stack = stack, !.buf = ""]
        ELSE [d EXCEPT !.stack = stack]

DecodeText(d, tok) ==
    IF d.stack # <<>> /\ Rel(d.stack) \in FieldPaths
    THEN [d EXCEPT !.buf = d.buf \o tok.val]
    ELSE d

DecodeClose(d, tok) ==
    IF d.stack = <<>>
    THEN [d EXCEPT !.err = <<"XML syntax error: unexpected end element </",
                             tok.tag, ">">>]
    ELSE IF d.stack[Len(d.stack)] # tok.tag
    THEN [d EXCEPT !.err = <<"XML syntax error: element <",
                             d.stack[Len(d.stack)], "> closed by </",
                             tok.tag, ">">>]
    ELSE
    LET rel == Rel(d.stack)
        popped == [d EXCEPT !.stack = SubSeq(d.stack, 1, Len(d.stack) - 1)]
    IN  IF Len(d.stack) = 1 THEN [popped EXCEPT !.done = TRUE]
        ELSE IF rel = PathType THEN [popped EXCEPT !.cur.SetType = d.buf]
        ELSE IF rel = PathFamily THEN [popped EXCEPT !.cur.HashFamily = d.buf]
        ELSE IF rel = PathHashSize
        THEN IF AtoiOK(d.buf)
             THEN [popped EXCEPT !.cur.HashSize = Atoi(d.buf)]
             ELSE [popped EXCEPT !.err = <<"strconv.ParseInt: parsing ",
                                           d.buf, ": invalid syntax">>]
        ELSE IF rel = PathMaxElem
        THEN IF AtoiOK(d.buf)
             THEN [popped EXCEPT !.cur.MaxElement = Atoi(d.buf)]
             ELSE [popped EXCEPT !.err = <<"strconv.ParseInt: parsing ",
                                           d.buf, ": invalid syntax">>]
        ELSE IF rel = PathElem THEN [popped EXCEPT !.member.Element = d.buf]
        ELSE IF rel = PathComment THEN [popped EXCEPT !.member.Comment = d.buf]
        ELSE IF rel = PathMember
        THEN [popped EXCEPT !.cur.Entries = append(d.cur.Entries, d.member)]
        ELSE IF rel = PathIPSet
        THEN [popped EXCEPT !.List = append(d.List, d.cur)]
        ELSE popped

DecodeToken(d, tok) ==
    IF tok.k = "open" THEN DecodeOpen(d, tok)
    ELSE IF tok.k = "text" THEN DecodeText(d, tok)
    ELSE DecodeClose(d, tok)

\* The decoder reads tokens until the root element ends or a token is in
\* error; what follows the root element is never read.
RECURSIVE DecodeAll(_, _)
DecodeAll(d, doc) ==
    IF doc = <<>> THEN d
    ELSE LET next == DecodeToken(d, Head(doc))
         IN  IF next.done \/ next.err # NoErr THEN next
             ELSE DecodeAll(next, Tail(doc))

\* xml.Unmarshal(out, &sets): the decoded IPSets and the error
Unmarshal(doc) ==
    LET d == DecodeAll(DecodeStart, doc)
    IN  IF d.err # NoErr THEN [List |-> d.List, err |-> d.err]
        ELSE IF d.done THEN [List |-> d.List, err |-> NoErr]
        ELSE IF d.stack = <<>> THEN [List |-> d.List, err |-> <<"EOF">>]
        ELSE [List |-> d.List,
              err |-> <<"XML syntax error: unexpected EOF">>]

---------------------------------------------------------------------------
(* The command runner.  Each operation is an operator from the exec        *)
(* capability's command log, the call's arguments and the outcome oc =     *)
(* [out, err] of CombinedOutput() to the new log and what the call         *)
(* returns: log, cmdArgs (the argv it built), ran (whether it reached      *)
(* exec), err and res (the list result, nil for the other operations).     *)

\* %v of a *IPSet
FmtSet(st) ==
    "&{" \o st.Name \o " " \o st.SetType \o " " \o st.HashFamily \o " "
         \o Itoa(st.HashSize) \o " " \o Itoa(st.MaxElement) \o " []}"

\* %+v of a *IPSetEntry
FmtEntry(entry) ==
    "&{Element:" \o entry.Element \o " Comment:" \o entry.Comment \o "}"

cmdArgsBuilderNoFlags(args) == args

\* cmdArgsBuilder builds the ipset command with mandatory arguments.
cmdArgsBuilder(args) == args \o flags

\* runner.exec.Command(IPSetCmd, cmdArgs...).CombinedOutput(): the command
\* is executed once and recorded
CombinedOutput(lg, cmdArgs) == Append(lg, <<IPSetCmd>> \o cmdArgs)

createSetArgsExistLast(st, ignoreExistErr) ==
    cmdArgsBuilder(
        <<"create", st.Name, st.SetType>>
        \o (IF st.SetType = HashIP
            THEN <<"family", st.HashFamily,
                   "hashsize", Itoa(st.HashSize),
                   "maxelem", Itoa(st.MaxElement)>>
            ELSE <<>>))
    \o (IF ignoreExistErr THEN <<"-exist">> ELSE <<>>)

\* the argv createSet builds
createSetArgs(st, ignoreExistErr) ==
    cmdArgsBuilder(
        <<"create", st.Name, st.SetType>>
        \o (IF st.SetType = HashIP
            THEN <<"family", st.HashFamily,
                   "hashsize", Itoa(st.HashSize),
                   "maxelem", Itoa(st.MaxElement)>>
            ELSE <<>>)
        \o (IF ignoreExistErr THEN <<"-exist">> ELSE <<>>))

createSetSwallowsError(lg, st, ignoreExistErr, oc) ==
    LET cmdArgs == createSetArgs(st, ignoreExistErr)
    IN  [log |-> CombinedOutput(lg, cmdArgs), cmdArgs |-> cmdArgs,
         ran |-> TRUE, err |-> NoErr, res |-> NilSlice]

createSet(lg, st, ignoreExistErr, oc) ==
    LET cmdArgs == createSetArgs(st, ignoreExistErr)
    IN  [log |-> CombinedOutput(lg, cmdArgs), cmdArgs |-> cmdArgs,
         ran |-> TRUE,
         err |-> IF oc.err # NoErr
                 THEN <<"error creating set: ", FmtSet(st), ", error: ">>
                      \o oc.err
                 ELSE NoErr,
         res |-> NilSlice]

CreateSetRunsAnyway(lg, st, ignoreExistErr, oc) ==
    LET err == Validate(st)
        r == createSet(lg, st, ignoreExistErr, oc)
    IN  IF err # NoErr
        THEN [r EXCEPT !.err = <<"error creating set: ", FmtSet(st),
                                 ", error: ">> \o err]
        ELSE r

CreateSet(lg, st, ignoreExistErr, oc) ==
    LET err == Validate(st)
    IN  IF err # NoErr
        THEN [log |-> lg, cmdArgs |-> <<>>, ran |-> FALSE,
              err |-> <<"error creating set: ", FmtSet(st), ", error: ">>
                      \o err,
              res |-> NilSlice]
        ELSE createSet(lg, st, ignoreExistErr, oc)

DestroySetRetries(lg, setname, oc) ==
    LET cmdArgs == cmdArgsBuilder(<<"destroy", setname>>)
        once == CombinedOutput(lg, cmdArgs)
    IN  [log |-> IF oc.err # NoErr THEN CombinedOutput(once, cmdArgs)
                 ELSE once,
         cmdArgs |-> cmdArgs, ran |-> TRUE,
         err |-> IF oc.err # NoErr
                 THEN <<"error destroying set ", setname, ", error: ">>
                      \o oc.err
                 ELSE NoErr,
         res |-> NilSlice]

DestroySet(lg, setname, oc) ==
    LET cmdArgs == cmdArgsBuilder(<<"destroy", setname>>)
    IN  [log |-> CombinedOutput(lg, cmdArgs), cmdArgs |-> cmdArgs,
         ran |-> TRUE,
         err |-> IF oc.err # NoErr
                 THEN <<"error destroying set ", setname, ", error: ">>
                      \o oc.err
                 ELSE NoErr,
         res |-> NilSlice]

RECURSIVE SetNamesReversed(_, _)
SetNamesReversed(list, sets) ==
    IF sets = <<>> THEN list
    ELSE append(SetNamesReversed(list, Tail(sets)), Head(sets).Name)

\* the names of the decoded sets, in order
RECURSIVE SetNames(_, _)
SetNames(list, sets) ==
    IF sets = <<>> THEN list
    ELSE SetNames(append(list, Head(sets).Name), Tail(sets))

ListSets(lg, oc) ==
    LET cmdArgs == cmdArgsBuilder(<<"list", "-n">>)
        lg1 == CombinedOutput(lg, cmdArgs)
        sets == Unmarshal(oc.out)
    IN  IF oc.err # NoErr
        THEN [log |-> lg1, cmdArgs |-> cmdArgs, ran |-> TRUE,
              err |-> <<"error listing all sets, error: ">> \o oc.err,
              res |-> NilSlice]
        ELSE IF sets.err # NoErr
        THEN [log |-> lg1, cmdArgs |-> cmdArgs, ran |-> TRUE,
              err |-> <<"error extract data sets, error: ">> \o sets.err,
              res |-> NilSlice]
        ELSE [log |-> lg1, cmdArgs |-> cmdArgs, ran |-> TRUE, err |-> NoErr,
              res |-> SetNames(EmptySlice, sets.List.v)]

RECURSIVE PickEntriesFirst(_, _)
PickEntriesFirst(entries, sets) ==
    IF sets = <<>> THEN entries
    ELSE IF ~Head(sets).Entries.nil THEN Head(sets).Entries
    ELSE PickEntriesFirst(entries, Tail(sets))

\* the loop of ListEntries over the decoded sets
RECURSIVE PickEntries(_, _)
PickEntries(entries, sets) ==
    IF sets = <<>> THEN entries
    ELSE PickEntries(IF ~Head(sets).Entries.nil THEN Head(sets).Entries
                     ELSE entries,
                     Tail(sets))

ListEntriesNilWhenEmpty(lg, setname, oc) ==
    LET cmdArgs == cmdArgsBuilder(<<"list", setname>>)
        lg1 == CombinedOutput(lg, cmdArgs)
        sets == Unmarshal(oc.out)
    IN  IF oc.err # NoErr
        THEN [log |-> lg1, cmdArgs |-> cmdArgs, ran |-> TRUE,
              err |-> <<"error listing all sets, error: ">> \o oc.err,
              res |-> NilSlice]
        ELSE IF sets.err # NoErr
        THEN [log |-> lg1, cmdArgs |-> cmdArgs, ran |-> TRUE,
              err |-> <<"error extract data sets, error: ">> \o sets.err,
              res |-> NilSlice]
        ELSE [log |-> lg1, cmdArgs |-> cmdArgs, ran |-> TRUE, err |-> NoErr,
              res |-> PickEntries(NilSlice, sets.List.v)]

\* entries are taken from the set whose name was asked for
RECURSIVE PickEntriesByName(_, _, _)
PickEntriesByName(entries, sets, setname) ==
    IF sets = <<>> THEN entries
    ELSE PickEntriesByName(
             IF ~Head(sets).Entries.nil /\ Head(sets).Name = setname
             THEN Head(sets).Entries ELSE entries,
             Tail(sets), setname)

ListEntriesByName(lg, setname, oc) ==
    LET cmdArgs == cmdArgsBuilder(<<"list", setname>>)
        lg1 == CombinedOutput(lg, cmdArgs)
        sets == Unmarshal(oc.out)
    IN  IF oc.err # NoErr
        THEN [log |-> lg1, cmdArgs |-> cmdArgs, ran |-> TRUE,
              err |-> <<"error listing all sets, error: ">> \o oc.err,
              res |-> NilSlice]
        ELSE IF sets.err # NoErr
        THEN [log |-> lg1, cmdArgs |-> cmdArgs, ran |-> TRUE,
              err |-> <<"error extract data sets, error: ">> \o sets.err,
              res |-> NilSlice]
        ELSE [log |-> lg1, cmdArgs |-> cmdArgs, ran |-> TRUE, err |-> NoErr,
              res |-> PickEntriesByName(EmptySlice, sets.List.v, setname)]

ListEntries(lg, setname, oc) ==
    LET cmdArgs == cmdArgsBuilder(<<"list", setname>>)
        lg1 == CombinedOutput(lg, cmdArgs)
        sets == Unmarshal(oc.out)
    IN  IF oc.err # NoErr
        THEN [log |-> lg1, cmdArgs |-> cmdArgs, ran |-> TRUE,
              err |-> <<"error listing all sets, error: ">> \o oc.err,
              res |-> NilSlice]
        ELSE IF sets.err # NoErr
        THEN [log |-> lg1, cmdArgs |-> cmdArgs, ran |-> TRUE,
              err |-> <<"error extract data sets, error: ">> \o sets.err,
              res |-> NilSlice]
        ELSE [log |-> lg1, cmdArgs |-> cmdArgs, ran |-> TRUE, err |-> NoErr,
              res |-> PickEntries(EmptySlice, sets.List.v)]

AddEntryArgsCommentLast(entry, setname, ignoreExistErr) ==
    cmdArgsBuilder(
        <<"add", setname, entry.Element>>
        \o (IF ignoreExistErr THEN <<"-exist">> ELSE <<>>)
        \o (IF entry.Comment # "" THEN <<"comment", entry.Comment>>
            ELSE <<>>))

\* the argv AddEntry builds
AddEntryArgs(entry, setname, ignoreExistErr) ==
    cmdArgsBuilder(
        <<"add", setname, entry.Element>>
        \o (IF entry.Comment # "" THEN <<"comment", entry.Comment>>
            ELSE <<>>)
        \o (IF ignoreExistErr THEN <<"-exist">> ELSE <<>>))

AddEntry(lg, entry, setname, ignoreExistErr, oc) ==
    LET cmdArgs == AddEntryArgs(entry, setname, ignoreExistErr)
    IN  [log |-> CombinedOutput(lg, cmdArgs), cmdArgs |-> cmdArgs,
         ran |-> TRUE,
         err |-> IF oc.err # NoErr
                 THEN <<"error adding entry ", FmtEntry(entry), ", error: ">>
                      \o oc.err
                 ELSE NoErr,
         res |-> NilSlice]

DelEntry(lg, entryElement, setname, oc) ==
    LET cmdArgs == cmdArgsBuilder(<<"del", setname, entryElement>>)
    IN  [log |-> CombinedOutput(lg, cmdArgs), cmdArgs |-> cmdArgs,
         ran |-> TRUE,
         err |-> IF oc.err # NoErr
                 THEN <<"error deleting entry ", entryElement, ", error: ">>
                      \o oc.err
                 ELSE NoErr,
         res |-> NilSlice]

---------------------------------------------------------------------------
(* The inputs the callers and the ipset command supply. *)

Names == {"foo", "bar"}
Types == {HashIP, "invalid"}
Families == {ProtocolFamilyIPv4, ProtocolFamilyIPv6, "unix"}
HashSizes == {-1, 0, 256}
MaxElements == {0, 128}

Setters ==
    {IPSetName(x) : x \in Names} \cup {IPSetType(x) : x \in Types}
    \cup {IPSetHashFamily(x) : x \in Families}
    \cup {IPSetHashSize(x) : x \in HashSizes}
    \cup {IPSetMaxElement(x) : x \in MaxElements}
    \cup {IPSetWithComment}

SetterSeqs == UNION {[1..k -> Setters] : k \in 0..MaxSetters}

\* the specifications handed to CreateSet
RunnerSetterSeqs ==
    {<<IPSetName("foo")>>,
     <<IPSetName("foo"), IPSetType(HashIP), IPSetHashSize(256),
       IPSetMaxElement(128)>>,
     <<IPSetName("foo"), IPSetType(HashIP), IPSetHashSize(256),
       IPSetMaxElement(128), IPSetWithComment>>,
     <<IPSetName("bar"), IPSetHashFamily(ProtocolFamilyIPv6)>>,
     <<IPSetName("foo"), IPSetType("invalid")>>,
     <<IPSetName("foo"), IPSetType(HashIP), IPSetHashSize(-1)>>,
     <<IPSetName("bar"), IPSetHashSize(1024), IPSetMaxElement(0)>>}

RunnerSets == {IPSetSpec(ss) : ss \in RunnerSetterSeqs}

ZeroEntry == [Element |-> "", Comment |-> ""]

\* the entries handed to AddEntry
EntryInputs ==
    {[Element |-> "172.18.3.2", Comment |-> "ContainerID: deadbeaf"],
     [Element |-> "172.18.3.2", Comment |-> ""],
     [Element |-> "172.18.3.3", Comment |-> "c2"]}

Elements == {e.Element : e \in EntryInputs}

\* the error of a command that exits with status 1
ExitErr == <<"exit status 1">>

\* what the command prints when it fails
FailureText == <<Text("ipset v7.6: the command failed")>>

\* the <type>, <revision> and <header> children of an <ipset>
Header ==
    Elem("type", HashIP) \o <<Open("revision"), Text("4"), Close("revision")>>
    \o <<Open("header")>> \o Elem("family", "inet") \o Elem("hashsize", "1024")
    \o Elem("maxelem", "65536") \o <<Open("comment"), Close("comment")>>
    \o <<Close("header")>>

Member(elem, comment) ==
    <<Open("member")>> \o Elem("elem", elem) \o Elem("comment", comment)
    \o <<Close("member")>>

Members(members) == <<Open("members")>> \o members \o <<Close("members")>>

SetDoc(name, body) == <<OpenSet(name)>> \o body \o <<Close("ipset")>>

Listing(body) == <<Text(" "), Open("ipsets")>> \o body \o <<Close("ipsets")>>

DocEmptyOutput == <<>>
DocNoSets == Listing(<<>>)
DocNames ==
    Listing(SetDoc("foo", <<>>) \o SetDoc("bar", <<>>) \o SetDoc("foo", <<>>))
DocOneSet ==
    Listing(SetDoc("foo",
        Header
        \o Members(Member("172.18.3.3", "\"ContainerID: deadbeafbeaf\"")
                   \o <<Text(" ")>>
                   \o Member("172.18.3.2", "\"ContainerID: deadbeaf\""))))
DocNoMembers ==
    Listing(SetDoc("foo", Elem("type", HashIP) \o Members(<<Text(" ")>>)))
DocSeveralSets ==
    Listing(SetDoc("foo", Members(Member("172.18.3.2", "c1")))
            \o SetDoc("bar", Members(Member("172.18.3.3", "c2")))
            \o SetDoc("baz", Members(<<>>)))
DocTruncated == <<Open("ipsets"), OpenSet("foo")>>
DocMismatched == <<Open("ipsets"), OpenSet("foo"), Close("ipsets")>>
DocBadHashSize ==
    Listing(SetDoc("foo", <<Open("header")>> \o Elem("hashsize", "many")
                          \o <<Close("header")>>))

\* what a successful list command may print
Outputs ==
    {DocEmptyOutput, DocNoSets, DocNames, DocOneSet, DocNoMembers,
     DocSeveralSets, DocTruncated, DocMismatched, DocBadHashSize}

\* the outcomes of a command whose output is not read
PlainOutcomes ==
    {[out |-> <<>>, err |-> NoErr], [out |-> FailureText, err |-> ExitErr]}

\* the outcomes of a list command
ListOutcomes ==
    {[out |-> o, err |-> NoErr] : o \in Outputs}
    \cup {[out |-> FailureText, err |-> ExitErr]}

\* the outcome recorded for a call that ran no command
NoOutcome == [out |-> <<>>, err |-> NoErr]

\* the goroutines that call one runner at the same time
Callers == {"a", "b", "c"}

\* a caller that is in no call
NoCall ==
    [pc |-> "idle", op |-> "", st |-> ZeroIPSet, entry |-> ZeroEntry,
     name |-> "", ignore |-> FALSE, oc |-> NoOutcome, cmdArgs |-> <<>>,
     ran |-> FALSE, err |-> NoErr, res |-> NilSlice]
NoCalls == [p \in Callers |-> NoCall]

\* the processes that share one lock file
Procs == {"p", "q"}

\* a locker as constructed: no lock file yet
\* pc: where the process is in Lock ("idle" outside it); lock: the *os.File
\* field; flocked: its open file holds the exclusive flock; t: milliseconds
\* the poll of the current Lock has waited; err: what the last Lock returned;
\* n: Lock calls made; unlocked: Unlock was called since the last Lock
NewLocker ==
    [pc |-> "idle", lock |-> "nil", flocked |-> FALSE, t |-> 0,
     err |-> NoErr, n |-> 0, unlocked |-> FALSE]
NewLockers == [p \in Procs |-> NewLocker]

---------------------------------------------------------------------------
(* What a call leaves in the objects the caller passed by pointer. *)

SetAfterValidateClamped(st) ==
    IF st.HashSize <= 0 THEN [st EXCEPT !.HashSize = DefaultHashSize] ELSE st

\* set.Validate() reads the fields of *set and assigns none
SetAfterValidate(st) == st

\* createSet reads the fields of *set and assigns none
SetAftercreateSet(st) == st

\* CreateSet: Validate, then createSet unless Validate failed
SetAfterCreateSet(st) ==
    IF Validate(st) # NoErr THEN SetAfterValidate(st)
    ELSE SetAftercreateSet(SetAfterValidate(st))

\* AddEntry reads the fields of *entry and assigns none
EntryAfterAddEntry(entry) == entry

---------------------------------------------------------------------------
(* The caller that builds a specification and validates it. *)

InitBuilder ==
    /\ pc = "new"
    /\ setters \in SetterSeqs
    /\ set = ZeroIPSet
    /\ verr = NoErr
    /\ log = <<>>
    /\ hist = <<>>
    /\ flags = IPSetCmdMandatoryArgs
    /\ held = ZeroEntry
    /\ calls = NoCalls
    /\ lk = NewLockers

\* set := IPSetSpec(setters...)
DoIPSetSpec ==
    /\ pc = "new"
    /\ set' = IPSetSpec(setters)
    /\ pc' = "built"
    /\ UNCHANGED <<setters, verr, log, hist, flags, held, calls, lk>>

\* err := set.Validate()
DoValidate ==
    /\ pc = "built"
    /\ verr' = Validate(set)
    /\ set' = SetAfterValidate(set)
    /\ pc' = "validated"
    /\ UNCHANGED <<setters, log, hist, flags, held, calls, lk>>

NextBuilder == DoIPSetSpec \/ DoValidate

SpecBuilder == InitBuilder /\ [][NextBuilder]_vars

---------------------------------------------------------------------------
(* The callers of one runner. *)

Init ==
    /\ pc = "new"
    /\ setters = <<>>
    /\ set = ZeroIPSet
    /\ verr = NoErr
    /\ log = <<>>
    /\ hist = <<>>
    /\ flags = IPSetCmdMandatoryArgs
    /\ held = ZeroEntry
    /\ calls = NoCalls
    /\ lk = NewLockers

\* the record of a call: its arguments, the command's outcome and the return
Call(op, st, entry, setname, ignoreExistErr, oc, r) ==
    [op |-> op, st |-> st, entry |-> entry, name |-> setname,
     ignore |-> ignoreExistErr, oc |-> IF r.ran THEN oc ELSE NoOutcome,
     cmdArgs |-> r.cmdArgs, ran |-> r.ran, err |-> r.err, res |-> r.res]

Returns(c, r) ==
    /\ log' = r.log
    /\ hist' = Append(hist, c)
    /\ UNCHANGED <<pc, setters, set, verr, flags, held, calls, lk>>

CallCreateSet ==
    /\ Len(hist) < MaxCalls
    /\ \E st \in RunnerSets, ignoreExistErr \in BOOLEAN, oc \in PlainOutcomes :
         LET r == CreateSet(log, st, ignoreExistErr, oc)
         IN  Returns(Call("CreateSet", st, ZeroEntry, st.Name, ignoreExistErr,
                          oc, r), r)

CallDestroySet ==
    /\ Len(hist) < MaxCalls
    /\ \E setname \in Names, oc \in PlainOutcomes :
         LET r == DestroySet(log, setname, oc)
         IN  Returns(Call("DestroySet", ZeroIPSet, ZeroEntry, setname, FALSE,
                          oc, r), r)

CallListSets ==
    /\ Len(hist) < MaxCalls
    /\ \E oc \in ListOutcomes :
         LET r == ListSets(log, oc)
         IN  Returns(Call("ListSets", ZeroIPSet, ZeroEntry, "", FALSE, oc, r),
                     r)

CallListEntries ==
    /\ Len(hist) < MaxCalls
    /\ \E setname \in Names, oc \in ListOutcomes :
         LET r == ListEntries(log, setname, oc)
         IN  Returns(Call("ListEntries", ZeroIPSet, ZeroEntry, setname, FALSE,
                          oc, r), r)

CallAddEntry ==
    /\ Len(hist) < MaxCalls
    /\ \E entry \in EntryInputs, setname \in Names,
          ignoreExistErr \in BOOLEAN, oc \in PlainOutcomes :
         LET r == AddEntry(log, entry, setname, ignoreExistErr, oc)
         IN  Returns(Call("AddEntry", ZeroIPSet, entry, setname,
                          ignoreExistErr, oc, r), r)

CallDelEntry ==
    /\ Len(hist) < MaxCalls
    /\ \E entryElement \in Elements, setname \in Names, oc \in PlainOutcomes :
         LET r == DelEntry(log, entryElement, setname, oc)
         IN  Returns(Call("DelEntry", ZeroIPSet,
                          [ZeroEntry EXCEPT !.Element = entryElement],
                          setname, FALSE, oc, r), r)

Next ==
    \/ CallCreateSet
    \/ CallDestroySet
    \/ CallListSets
    \/ CallListEntries
    \/ CallAddEntry
    \/ CallDelEntry

Spec == Init /\ [][Next]_vars

---------------------------------------------------------------------------
(* The caller that keeps one specification and one entry and hands them to *)
(* the runner again and again.                                             *)

InitCaller ==
    /\ pc = "new"
    /\ setters \in RunnerSetterSeqs
    /\ set = ZeroIPSet
    /\ verr = NoErr
    /\ log = <<>>
    /\ hist = <<>>
    /\ flags = IPSetCmdMandatoryArgs
    /\ held \in EntryInputs
    /\ calls = NoCalls
    /\ lk = NewLockers

\* err := runner.CreateSet(set, ignoreExistErr) on the specification held
CallerCreateSet ==
    /\ pc \in {"built", "validated"}
    /\ Len(hist) < MaxCalls
    /\ \E ignoreExistErr \in BOOLEAN, oc \in PlainOutcomes :
         LET r == CreateSet(log, set, ignoreExistErr, oc)
         IN  /\ log' = r.log
             /\ hist' = Append(hist, Call("CreateSet", set, ZeroEntry,
                                          set.Name, ignoreExistErr, oc, r))
             /\ set' = SetAfterCreateSet(set)
    /\ UNCHANGED <<pc, setters, verr, flags, held, calls, lk>>

\* err := runner.AddEntry(entry, setname, ignoreExistErr) on the entry held
CallerAddEntry ==
    /\ pc \in {"built", "validated"}
    /\ Len(hist) < MaxCalls
    /\ \E setname \in Names, ignoreExistErr \in BOOLEAN, oc \in PlainOutcomes :
         LET r == AddEntry(log, held, setname, ignoreExistErr, oc)
         IN  /\ log' = r.log
             /\ hist' = Append(hist, Call("AddEntry", ZeroIPSet, held, setname,
                                          ignoreExistErr, oc, r))
             /\ held' = EntryAfterAddEntry(held)
    /\ UNCHANGED <<pc, setters, set, verr, flags, calls, lk>>

NextCaller == DoIPSetSpec \/ DoValidate \/ CallerCreateSet \/ CallerAddEntry

SpecCaller == InitCaller /\ [][NextCaller]_vars

---------------------------------------------------------------------------
(* Several goroutines calling one runner at the same time.  A call is not  *)
(* atomic: it builds its argv (reading the mandatory arguments), runs the  *)
(* command through the shared exec capability, and then turns the outcome  *)
(* into its return values; the steps of different callers interleave.     *)

\* the calls the concurrent callers make
ConcCalls ==
    {[op |-> "CreateSet", st |-> IPSetSpec(<<IPSetName("foo")>>),
      entry |-> ZeroEntry, name |-> "foo", ignore |-> TRUE],
     [op |-> "CreateSet",
      st |-> IPSetSpec(<<IPSetName("foo"), IPSetType("invalid")>>),
      entry |-> ZeroEntry, name |-> "foo", ignore |-> FALSE],
     [op |-> "DestroySet", st |-> ZeroIPSet, entry |-> ZeroEntry,
      name |-> "bar", ignore |-> FALSE],
     [op |-> "ListSets", st |-> ZeroIPSet, entry |-> ZeroEntry,
      name |-> "", ignore |-> FALSE],
     [op |-> "ListEntries", st |-> ZeroIPSet, entry |-> ZeroEntry,
      name |-> "foo", ignore |-> FALSE],
     [op |-> "AddEntry", st |-> ZeroIPSet,
      entry |-> [Element |-> "172.18.3.3", Comment |-> "c2"],
      name |-> "foo", ignore |-> FALSE],
     [op |-> "DelEntry", st |-> ZeroIPSet,
      entry |-> [ZeroEntry EXCEPT !.Element = "172.18.3.2"],
      name |-> "bar", ignore |-> FALSE]}

\* the outcomes the command of a concurrent call can have
ConcOutcomes(op) ==
    CASE op = "ListSets" ->
             {[out |-> DocNames, err |-> NoErr],
              [out |-> FailureText, err |-> ExitErr]}
      [] op = "ListEntries" ->
             {[out |-> DocSeveralSets, err |-> NoErr],
              [out |-> DocTruncated, err |-> NoErr]}
      [] OTHER -> PlainOutcomes

\* the operation c names, run from the log lg against the outcome oc
Run(c, lg, oc) ==
    CASE c.op = "CreateSet" -> CreateSet(lg, c.st, c.ignore, oc)
      [] c.op = "DestroySet" -> DestroySet(lg, c.name, oc)
      [] c.op = "ListSets" -> ListSets(lg, oc)
      [] c.op = "ListEntries" -> ListEntries(lg, c.name, oc)
      [] c.op = "AddEntry" -> AddEntry(lg, c.entry, c.name, c.ignore, oc)
      [] c.op = "DelEntry" -> DelEntry(lg, c.entry.Element, c.name, oc)

InitConcurrent ==
    /\ pc = "new"
    /\ setters = <<>>
    /\ set = ZeroIPSet
    /\ verr = NoErr
    /\ log = <<>>
    /\ hist = <<>>
    /\ flags = IPSetCmdMandatoryArgs
    /\ held = ZeroEntry
    /\ calls = NoCalls
    /\ lk = NewLockers

\* caller p enters an operation of the runner
ConcCall(p) ==
    /\ calls[p].pc = "idle"
    /\ \E c \in ConcCalls :
         calls' = [calls EXCEPT ![p] =
                      [NoCall EXCEPT !.pc = "called", !.op = c.op, !.st = c.st,
                                     !.entry = c.entry, !.name = c.name,
                                     !.ignore = c.ignore]]
    /\ UNCHANGED <<pc, setters, set, verr, log, hist, flags, held, lk>>

\* a build that appends the arguments to the shared list instead of a copy
ConcBuildShared(p) ==
    /\ calls[p].pc = "called"
    /\ LET r == Run(calls[p], <<>>, NoOutcome)
       IN  /\ calls' = [calls EXCEPT ![p].pc = IF r.ran THEN "built" ELSE "done",
                                     ![p].cmdArgs = r.cmdArgs,
                                     ![p].err = IF r.ran THEN NoErr ELSE r.err]
           /\ flags' = r.cmdArgs
    /\ UNCHANGED <<pc, setters, set, verr, log, hist, held, lk>>

\* p validates what it was given (CreateSet) and builds its argv in a slice
\* of its own, ending with a copy of the mandatory arguments
ConcBuild(p) ==
    /\ calls[p].pc = "called"
    /\ LET r == Run(calls[p], <<>>, NoOutcome)
       IN  calls' = [calls EXCEPT ![p].pc = IF r.ran THEN "built" ELSE "done",
                                  ![p].cmdArgs = r.cmdArgs,
                                  ![p].err = IF r.ran THEN NoErr ELSE r.err]
    /\ UNCHANGED <<pc, setters, set, verr, log, hist, flags, held, lk>>

\* p's command runs: runner.exec.Command(IPSetCmd, cmdArgs...).CombinedOutput()
ConcExec(p) ==
    /\ calls[p].pc = "built"
    /\ log' = CombinedOutput(log, calls[p].cmdArgs)
    /\ \E oc \in ConcOutcomes(calls[p].op) :
         calls' = [calls EXCEPT ![p].pc = "ran", ![p].ran = TRUE, ![p].oc = oc]
    /\ UNCHANGED <<pc, setters, set, verr, hist, flags, held, lk>>

\* p turns the outcome of its command into its return values
ConcReturn(p) ==
    /\ calls[p].pc = "ran"
    /\ LET r == Run(calls[p], <<>>, calls[p].oc)
       IN  calls' = [calls EXCEPT ![p].pc = "done", ![p].err = r.err,
                                  ![p].res = r.res]
    /\ UNCHANGED <<pc, setters, set, verr, log, hist, flags, held, lk>>

NextConcurrent ==
    \E p \in Callers :
        ConcCall(p) \/ ConcBuild(p) \/ ConcExec(p) \/ ConcReturn(p)

SpecConcurrent == InitConcurrent /\ [][NextConcurrent]_vars

---------------------------------------------------------------------------
(* The file-lock helper: processes that share one lock file, each with a   *)
(* locker of its own.  A caller calls Lock on a locker whose lock file is  *)
(* not open, and Unlock at any time outside Lock.                          *)

\* wait.PollImmediate(200*time.Millisecond, 2*time.Second, ...)
PollInterval == 200
PollTimeout == 2000

lockfilePath == "/run/ipset.lock"

\* the error of an os.OpenFile that fails, and of a poll that times out
OpenErr == "permission denied"
ErrWaitTimeout == "timed out waiting for the condition"

\* unix.Flock(fd, LOCK_EX|LOCK_NB) of p's file succeeds unless the open file
\* of another process holds the lock
grabIPSetFileLock(p) == \A q \in Procs \ {p} : ~lk[q].flocked

\* l.Unlock(): closing the file releases the flock it holds
Unlocked(l) ==
    IF l.lock # "nil" THEN [l EXCEPT !.lock = "closed", !.flocked = FALSE]
    ELSE l

InitLock ==
    /\ pc = "new"
    /\ setters = <<>>
    /\ set = ZeroIPSet
    /\ verr = NoErr
    /\ log = <<>>
    /\ hist = <<>>
    /\ flags = IPSetCmdMandatoryArgs
    /\ held = ZeroEntry
    /\ calls = NoCalls
    /\ lk = NewLockers

LockFrame == UNCHANGED <<pc, setters, set, verr, log, hist, flags, held, calls>>

\* Lock is entered and os.OpenFile returns: the file, or nil and an error
LockOpen(p) ==
    /\ lk[p].pc = "idle"
    /\ lk[p].lock # "open"
    /\ lk[p].n < MaxLockCalls
    /\ \E opened \in BOOLEAN :
         lk' = [lk EXCEPT ![p] =
                   IF opened
                   THEN [@ EXCEPT !.pc = "poll", !.lock = "open", !.t = 0,
                                  !.err = NoErr, !.n = @ + 1,
                                  !.unlocked = FALSE]
                   ELSE [@ EXCEPT !.pc = "exit", !.lock = "nil", !.t = 0,
                                  !.err = <<"failed to open ipset lock ",
                                            lockfilePath, ": ", OpenErr>>,
                                  !.n = @ + 1, !.unlocked = FALSE]]
    /\ LockFrame

\* one round of the poll: try the lock now, and on failure wait one interval
\* unless the timeout would pass
LockPoll(p) ==
    /\ lk[p].pc = "poll"
    /\ lk' = [lk EXCEPT ![p] =
                 IF grabIPSetFileLock(p)
                 THEN [@ EXCEPT !.pc = "exit", !.flocked = TRUE]
                 ELSE IF lk[p].t + PollInterval > PollTimeout
                 THEN [@ EXCEPT !.pc = "exit",
                                !.err = <<"failed to acquire ipset lock: ",
                                          ErrWaitTimeout>>]
                 ELSE [@ EXCEPT !.t = @ + PollInterval]]
    /\ LockFrame

LockExitKeepsFile(p) ==
    /\ lk[p].pc = "exit"
    /\ lk' = [lk EXCEPT ![p].pc = "idle"]
    /\ LockFrame

\* Lock returns: the deferred function calls Unlock unless success was set
LockExit(p) ==
    /\ lk[p].pc = "exit"
    /\ lk' = [lk EXCEPT ![p] =
                 IF lk[p].err # NoErr THEN [Unlocked(@) EXCEPT !.pc = "idle"]
                 ELSE [@ EXCEPT !.pc = "idle"]]
    /\ LockFrame

\* l.Unlock() called by the owner of the locker
Unlock(p) ==
    /\ lk[p].pc = "idle"
    /\ lk[p].n > 0
    /\ ~lk[p].unlocked
    /\ lk' = [lk EXCEPT ![p] = [Unlocked(@) EXCEPT !.unlocked = TRUE]]
    /\ LockFrame

\* the steps of a Lock call that is under way
LockStep(p) == LockPoll(p) \/ LockExit(p)

NextLock == \E p \in Procs : LockOpen(p) \/ LockStep(p) \/ Unlock(p)

\* a process inside Lock keeps running, and its poll timer keeps firing
SpecLock ==
    InitLock /\ [][NextLock]_vars /\ \A p \in Procs : WF_vars(LockStep(p))

---------------------------------------------------------------------------
(* What the properties below read off a state. *)

\* the decimal numerals of the sizes the inputs use, written out
Decimal(v) ==
    CASE v = -1 -> "-1" [] v = 0 -> "0" [] v = 128 -> "128"
      [] v = 256 -> "256" [] v = 1024 -> "1024" [] v = 65536 -> "65536"

\* the setters list is a single IPSetName
OnlyName == Len(setters) = 1 /\ setters[1].opt = "Name"

\* the conditions under which a specification is valid
IsValid(st) ==
    /\ st.SetType \in {"hash:ip"}
    /\ st.SetType = "hash:ip" => st.HashFamily \in {"inet", "inet6"}
    /\ st.HashSize > 0
    /\ st.MaxElement > 0

\* an error of the form "invalid <field> value <v>, should be >0"
NamesField(err, field, v) ==
    /\ Len(err) = 3
    /\ err[1] = "invalid " \o field \o " value "
    /\ err[2] = Decimal(v)

\* the last call made on the runner, and the last command executed
LastCall == hist[Len(hist)]
LastCmd == log[Len(log)]

\* a call that specification validation rejected
Rejected(c) == c.op = "CreateSet" /\ ~IsValid(c.st)
NotRejected(c) == ~Rejected(c)

ExistFlag(ignoreExistErr) == IF ignoreExistErr THEN <<"-exist">> ELSE <<>>

\* the outputs of Outputs that are no well-formed listing
Undecodable == {DocEmptyOutput, DocTruncated, DocMismatched, DocBadHashSize}

IsListOp(c) == c.op \in {"ListSets", "ListEntries"}

---------------------------------------------------------------------------
(* C1: for every name, the specification built by IPSetSpec with only     *)
(* IPSetName(name) carries the name and the defaults (type hash:ip, family *)
(* inet, hash size 1024, max elements 65536, comments disabled) and passes *)
(* Validate.                                                               *)
C1_DefaultsAreValid ==
    OnlyName =>
        /\ pc # "new" =>
              /\ set.Name = setters[1].s
              /\ set.SetType = "hash:ip"
              /\ set.HashFamily = "inet"
              /\ set.HashSize = 1024
              /\ set.MaxElement = 65536
              /\ set.WithComment = FALSE
        /\ pc = "validated" => verr = NoErr

C1_Witness ==
    /\ pc = "validated"
    /\ setters = <<IPSetName("bar")>>
    /\ set.Name = "bar"
    /\ verr = NoErr

(* C2: Validate returns no error if and only if the type is supported, the *)
(* hash family is inet or inet6 (required only for hash:ip), the hash size *)
(* is > 0 and the max element count is > 0.                                *)
C2_ValidateIffValid ==
    pc = "validated" => (verr = NoErr <=> IsValid(set))

C2_Witness ==
    /\ pc = "validated"
    /\ verr = NoErr
    /\ set.HashFamily = "inet6"
    /\ set.HashSize = 256
    /\ set.MaxElement = 128

(* C3 as stated: for any specification whose hash size or max element      *)
(* count is <= 0, whatever its type and hash family, Validate fails with   *)
(* an error that names the offending field (Hash Size or Max Element) and  *)
(* contains that field's invalid value.                                    *)
C3_AsStated ==
    (pc = "validated" /\ (set.HashSize <= 0 \/ set.MaxElement <= 0)) =>
        \/ set.HashSize <= 0 /\ NamesField(verr, "Hash Size", set.HashSize)
        \/ set.MaxElement <= 0
           /\ NamesField(verr, "Max Element", set.MaxElement)

(* C3 amended: for any specification whose hash size or max element count  *)
(* is <= 0, Validate fails.  When the type is hash:ip and the family is    *)
(* inet or inet6 the error names the first offending field, Hash Size      *)
(* before Max Element, with its invalid value; for hash:ip with another    *)
(* family the error is "invalid Hash Family", and for another type it is   *)
(* "invalid Set Type".                                                     *)
C3_SizeErrors ==
    (pc = "validated" /\ (set.HashSize <= 0 \/ set.MaxElement <= 0)) =>
        /\ verr # NoErr
        /\ IF set.SetType # "hash:ip" THEN verr = <<"invalid Set Type">>
           ELSE IF set.HashFamily \notin {"inet", "inet6"}
           THEN verr = <<"invalid Hash Family">>
           ELSE IF set.HashSize <= 0
           THEN NamesField(verr, "Hash Size", set.HashSize)
           ELSE NamesField(verr, "Max Element", set.MaxElement)

C3_Witness ==
    /\ pc = "validated"
    /\ set.SetType = "hash:ip"
    /\ set.HashSize = 256
    /\ set.MaxElement = 0
    /\ verr = <<"invalid Max Element value ", "0", ", should be >0">>

(* C4: a CreateSet call whose specification fails Validate returns an      *)
(* error and executes no command: the log of executed commands is the same *)
(* after the call as before it, for either value of the idempotency flag.  *)
C4_RejectedRunsNothing ==
    [][(/\ Len(hist') = Len(hist) + 1
        /\ hist'[Len(hist')].op = "CreateSet"
        /\ Validate(hist'[Len(hist')].st) # NoErr)
       => (log' = log /\ hist'[Len(hist')].err # NoErr)]_vars

C4_Witness ==
    /\ Len(hist) = 2
    /\ Len(log) = 1
    /\ LastCall.op = "CreateSet"
    /\ LastCall.ignore
    /\ Validate(LastCall.st) # NoErr
    /\ LastCall.err # NoErr

C6_CommentToken ==
    (hist # <<>> /\ LastCall.op = "CreateSet" /\ LastCall.ran) =>
        IF LastCall.st.WithComment
        THEN \E i \in 3..Len(LastCmd) :
                /\ LastCmd[i] = "comment"
                /\ LastCmd[i - 2] = "maxelem"
                /\ \A j \in 1..Len(LastCmd) : LastCmd[j] = "-exist" => j > i
        ELSE \A i \in 1..Len(LastCmd) : LastCmd[i] # "comment"

(* C7: AddEntry executes ipset with argv exactly add, setname, element,    *)
(* then the pair comment, <text> if and only if the entry's comment is     *)
(* non-empty, then -exist if and only if ignoreExistErr, then -o, xml.     *)
C7_AddArgv ==
    (hist # <<>> /\ LastCall.op = "AddEntry") =>
        /\ log # <<>>
        /\ LastCmd =
              <<"ipset", "add", LastCall.name, LastCall.entry.Element>>
              \o (IF LastCall.entry.Comment # ""
                  THEN <<"comment", LastCall.entry.Comment>> ELSE <<>>)
              \o ExistFlag(LastCall.ignore) \o <<"-o", "xml">>

C7_Witness ==
    /\ hist # <<>>
    /\ LastCall.op = "AddEntry"
    /\ LastCall.entry.Comment = "ContainerID: deadbeaf"
    /\ LastCall.ignore
    /\ Len(LastCmd) = 9

(* C8: DestroySet, DelEntry, ListSets and ListEntries always issue a fixed *)
(* argv that ends in -o, xml and holds no -exist: destroy name; del name   *)
(* element; list -n; list name; whatever calls were made before.           *)
C8_FixedArgv ==
    (hist # <<>> /\ log # <<>>) =>
        /\ LastCall.op = "DestroySet" =>
              LastCmd = <<"ipset", "destroy", LastCall.name, "-o", "xml">>
        /\ LastCall.op = "DelEntry" =>
              LastCmd = <<"ipset", "del", LastCall.name,
                          LastCall.entry.Element, "-o", "xml">>
        /\ LastCall.op = "ListSets" =>
              LastCmd = <<"ipset", "list", "-n", "-o", "xml">>
        /\ LastCall.op = "ListEntries" =>
              LastCmd = <<"ipset", "list", LastCall.name, "-o", "xml">>

C8_Witness ==
    /\ Len(hist) = 2
    /\ hist[1].op = "AddEntry" /\ hist[1].ignore
    /\ LastCall.op = "DelEntry"
    /\ LastCall.name = hist[1].name
    /\ Len(log) = 2
    /\ \A i \in 1..Len(LastCmd) : LastCmd[i] # "-exist"

(* C9: the number of commands executed equals the number of calls that     *)
(* specification validation did not reject; each such call executes        *)
(* exactly one command, also when the command fails, and the i-th executed *)
(* command is the one the i-th such call built.                            *)
C9_OneCommandPerCall ==
    LET accepted == SelectSeq(hist, NotRejected)
    IN  /\ Len(log) = Len(accepted)
        /\ \A i \in 1..Len(accepted) :
              /\ accepted[i].ran
              /\ log[i] = <<"ipset">> \o accepted[i].cmdArgs

C9_Witness ==
    /\ Len(hist) = 2
    /\ Rejected(hist[1])
    /\ hist[2].op = "DestroySet"
    /\ hist[2].oc.err # NoErr
    /\ Len(log) = 1

(* C10: a call with a valid input returns an error if and only if the      *)
(* command reported an error or, for ListSets and ListEntries, its output  *)
(* could not be decoded; on an error the list operations return no result. *)
(* So a second identical CreateSet or AddEntry without the idempotency     *)
(* flag returns an error when the command reports the failure.             *)
C10_ErrorIffFailure ==
    \A i \in 1..Len(hist) :
        NotRejected(hist[i]) =>
            /\ hist[i].err # NoErr <=>
                  \/ hist[i].oc.err # NoErr
                  \/ IsListOp(hist[i]) /\ hist[i].oc.out \in Undecodable
            /\ (IsListOp(hist[i]) /\ hist[i].err # NoErr) => hist[i].res.nil

C10_Witness ==
    /\ Len(hist) = 2
    /\ hist[1].op = "CreateSet" /\ hist[1].ran /\ ~hist[1].ignore
    /\ hist[1].err = NoErr
    /\ hist[2].op = "CreateSet" /\ hist[2].st = hist[1].st
    /\ ~hist[2].ignore
    /\ hist[2].oc.err = ExitErr
    /\ hist[2].err # NoErr

---------------------------------------------------------------------------
(* What the listing properties read off a document and a call. *)

\* the <ipset> start elements of a document, in document order
IsSetToken(tok) == tok.k = "open" /\ tok.tag = "ipset"
SetTokens(doc) == SelectSeq(doc, IsSetToken)

\* the members of a document, in document order: a <member> start element is
\* followed by <elem>text</elem><comment>text</comment>
MemberStarts(doc) ==
    {i \in 1..Len(doc) : doc[i].k = "open" /\ doc[i].tag = "member"}
RECURSIVE MembersFrom(_, _)
MembersFrom(doc, i) ==
    IF i > Len(doc) THEN <<>>
    ELSE IF i \in MemberStarts(doc)
    THEN <<[Element |-> doc[i + 2].val, Comment |-> doc[i + 5].val]>>
         \o MembersFrom(doc, i + 1)
    ELSE MembersFrom(doc, i + 1)

\* a list call whose command succeeded and printed doc
Listed(c, op, doc) == c.op = op /\ c.oc.err = NoErr /\ c.oc.out = doc

\* the documents that hold exactly one set
OneSetDocs == {DocOneSet, DocNoMembers}

\* the decoded sets that have entries, by position
WithEntries(sets) == {i \in 1..Len(sets) : sets[i].Entries.v # <<>>}
Largest(S) == CHOOSE i \in S : \A j \in S : j <= i
Smallest(S) == CHOOSE i \in S : \A j \in S : i <= j

\* a text without its surrounding double quotes
Unquoted(s) ==
    CASE s = "\"ContainerID: deadbeaf\"" -> "ContainerID: deadbeaf"
      [] s = "\"ContainerID: deadbeafbeaf\"" -> "ContainerID: deadbeafbeaf"
      [] OTHER -> s

---------------------------------------------------------------------------
(* C11: when the command succeeds with a listing of N set elements,        *)
(* ListSets returns exactly N names, the i-th being the name attribute of  *)
(* the i-th set element in document order, duplicates kept; for a listing  *)
(* with no set elements it returns an empty list and no error.             *)
C11_ListSetsNames ==
    \A doc \in Outputs \ Undecodable :
        (hist # <<>> /\ Listed(LastCall, "ListSets", doc)) =>
            /\ LastCall.err = NoErr
            /\ ~LastCall.res.nil
            /\ Len(LastCall.res.v) = Len(SetTokens(doc))
            /\ \A i \in 1..Len(SetTokens(doc)) :
                  LastCall.res.v[i] = SetTokens(doc)[i].val

C11_Witness ==
    /\ hist # <<>>
    /\ Listed(LastCall, "ListSets", DocNames)
    /\ LastCall.res.v = <<"foo", "bar", "foo">>

C13_QuotesStripped ==
    (hist # <<>> /\ Listed(LastCall, "ListEntries", DocOneSet)) =>
        /\ Len(LastCall.res.v) = Len(MembersFrom(DocOneSet, 1))
        /\ \A i \in 1..Len(LastCall.res.v) :
              LastCall.res.v[i].Comment =
                  Unquoted(MembersFrom(DocOneSet, 1)[i].Comment)

(* C14 as stated: when the decoded listing holds several sets, ListEntries *)
(* returns the entries of the first set in document order that has a       *)
(* non-empty entries list.                                                 *)
C14_AsStated ==
    \A doc \in Outputs \ Undecodable :
        (hist # <<>> /\ Listed(LastCall, "ListEntries", doc)
         /\ WithEntries(Unmarshal(doc).List.v) # {}) =>
            LastCall.res.v =
                Unmarshal(doc).List.v[
                    Smallest(WithEntries(Unmarshal(doc).List.v))].Entries.v

(* C14 amended: when the decoded listing holds several sets, ListEntries   *)
(* returns the entries of the last set in document order that has a        *)
(* non-empty entries list.                                                 *)
C14_LastNonEmpty ==
    \A doc \in Outputs \ Undecodable :
        (hist # <<>> /\ Listed(LastCall, "ListEntries", doc)
         /\ WithEntries(Unmarshal(doc).List.v) # {}) =>
            LastCall.res.v =
                Unmarshal(doc).List.v[
                    Largest(WithEntries(Unmarshal(doc).List.v))].Entries.v

C14_Witness ==
    /\ hist # <<>>
    /\ Listed(LastCall, "ListEntries", DocSeveralSets)
    /\ Cardinality(WithEntries(Unmarshal(DocSeveralSets).List.v)) = 2
    /\ LastCall.res.v = <<[Element |-> "172.18.3.3", Comment |-> "c2"]>>

(* C16: ListEntries does not match sets by the requested name: the result  *)
(* of a successful call is decided by the listing alone, the entries of    *)
(* the last set that has any, whatever name was asked for, and the name    *)
(* only appears in the argv.                                               *)
C16_NameOnlyInArgv ==
    /\ \A i, j \in 1..Len(hist) :
          (/\ hist[i].op = "ListEntries" /\ hist[j].op = "ListEntries"
           /\ hist[i].oc = hist[j].oc) =>
              /\ hist[i].res = hist[j].res
              /\ (hist[i].err = NoErr) = (hist[j].err = NoErr)
    /\ \A i \in 1..Len(hist) :
          hist[i].op = "ListEntries" =>
              /\ hist[i].cmdArgs = <<"list", hist[i].name, "-o", "xml">>
              /\ Listed(hist[i], "ListEntries", DocSeveralSets) =>
                    hist[i].res.v =
                        <<[Element |-> "172.18.3.3", Comment |-> "c2"]>>

C16_Witness ==
    /\ Len(hist) = 2
    /\ Listed(hist[1], "ListEntries", DocSeveralSets)
    /\ Listed(hist[2], "ListEntries", DocSeveralSets)
    /\ hist[1].name = "foo"
    /\ hist[2].name = "bar"
    /\ hist[1].res = hist[2].res
    /\ hist[1].res.v[1].Element = "172.18.3.3"

\* an argv without its -exist flag
IsNotExistFlag(a) == a # "-exist"
StripExist(args) == SelectSeq(args, IsNotExistFlag)

(* C17: a specification is never changed after IPSetSpec returns it:       *)
(* Validate and CreateSet leave every field unchanged whether they succeed *)
(* or fail, AddEntry leaves the entry it is given unchanged, and repeated  *)
(* CreateSet calls with the same specification issue the same argv up to   *)
(* the -exist flag.                                                        *)
C17_SpecUnchanged ==
    [][/\ pc # "new" => set' = set
       /\ held' = held
       /\ \A i, j \in 1..Len(hist') :
             (hist'[i].op = "CreateSet" /\ hist'[j].op = "CreateSet") =>
                 /\ hist'[i].st = hist'[j].st
                 /\ hist'[i].ran = hist'[j].ran
                 /\ StripExist(hist'[i].cmdArgs) = StripExist(hist'[j].cmdArgs)
      ]_vars

C17_Witness ==
    /\ pc = "validated"
    /\ set = IPSetSpec(setters)
    /\ Len(hist) = 2
    /\ hist[1].op = "CreateSet" /\ hist[1].ran /\ hist[1].err # NoErr
    /\ hist[2].op = "CreateSet" /\ hist[2].ran /\ hist[2].err = NoErr
    /\ hist[1].ignore /\ ~hist[2].ignore
    /\ hist[1].cmdArgs # hist[2].cmdArgs

\* the argv and the return values of call c run alone from a new runner
\* against the outcome oc
AloneArgs ==
    [c \in ConcCalls |->
        CASE c.op = "CreateSet" ->
                 <<"create", "foo", "hash:ip", "family", "inet", "hashsize",
                   "1024", "maxelem", "65536", "-exist", "-o", "xml">>
          [] c.op = "DestroySet" -> <<"destroy", "bar", "-o", "xml">>
          [] c.op = "ListSets" -> <<"list", "-n", "-o", "xml">>
          [] c.op = "ListEntries" -> <<"list", "foo", "-o", "xml">>
          [] c.op = "AddEntry" ->
                 <<"add", "foo", "172.18.3.3", "comment", "c2", "-o", "xml">>
          [] c.op = "DelEntry" -> <<"del", "bar", "172.18.3.2", "-o", "xml">>]

\* the call descriptor of a caller
CallOf(p) ==
    [op |-> calls[p].op, st |-> calls[p].st, entry |-> calls[p].entry,
     name |-> calls[p].name, ignore |-> calls[p].ignore]

\* the callers whose command has run
Ran == {p \in Callers : calls[p].ran}

\* how many log entries are the command cmd
Count(cmd) == Cardinality({i \in 1..Len(log) : log[i] = cmd})

(* C15: for any interleaving of concurrent calls on one runner, every call *)
(* issues exactly the argv and returns exactly the result it would when    *)
(* run alone against the same command outcome, and no operation writes to  *)
(* the shared mandatory-flags list.                                        *)
C15_CallsAreIndependent ==
    /\ flags = IPSetCmdMandatoryArgs
    /\ Len(log) = Cardinality(Ran)
    /\ \A p \in Callers :
          /\ calls[p].ran =>
                /\ calls[p].cmdArgs = AloneArgs[CallOf(p)]
                /\ Count(<<IPSetCmd>> \o calls[p].cmdArgs) =
                      Cardinality({q \in Ran :
                                      calls[q].cmdArgs = calls[p].cmdArgs})
          /\ calls[p].pc = "done" =>
                LET alone == Run(CallOf(p), <<>>, calls[p].oc)
                IN  /\ calls[p].ran = alone.ran
                    /\ calls[p].err = alone.err
                    /\ calls[p].res = alone.res

C15_Witness ==
    /\ \A p \in Callers : calls[p].pc = "done"
    /\ calls["a"].op = "ListEntries" /\ calls["a"].err = NoErr
    /\ calls["b"].op = "CreateSet" /\ ~calls["b"].ran
    /\ calls["c"].op = "ListSets" /\ calls["c"].err # NoErr
    /\ log = <<<<IPSetCmd>> \o calls["c"].cmdArgs,
               <<IPSetCmd>> \o calls["a"].cmdArgs>>

\* Lock has returned on p's locker and Unlock was not called since
Returned(p) == lk[p].pc = "idle" /\ lk[p].n > 0 /\ ~lk[p].unlocked
InLock(p) == lk[p].pc # "idle"

\* the moments at which the lock is tried: 0, 200, ..., 2000 ms
PollTimes == {k * 200 : k \in 0..10}

(* C18: Lock always returns; it tries the non-blocking exclusive lock a    *)
(* bounded number of times, every 200 ms for at most 2 s; when the file    *)
(* cannot be opened or the lock is not free for the whole period it        *)
(* returns an error after closing any lock file it opened; and when it     *)
(* returns no error the lock file is open and the exclusive lock is held   *)
(* until Unlock closes it.                                                 *)
C18_LockSafe ==
    \A p \in Procs :
        /\ lk[p].t \in PollTimes
        /\ lk[p].flocked => \A q \in Procs \ {p} : ~lk[q].flocked
        /\ (Returned(p) /\ lk[p].err # NoErr) =>
              /\ lk[p].lock # "open"
              /\ ~lk[p].flocked
              /\ lk[p].err[1] = "failed to acquire ipset lock: " =>
                    lk[p].t = 2000
        /\ (Returned(p) /\ lk[p].err = NoErr) =>
              /\ lk[p].lock = "open"
              /\ lk[p].flocked
        /\ (lk[p].pc = "idle" /\ lk[p].unlocked) =>
              /\ lk[p].lock # "open"
              /\ ~lk[p].flocked

C18_LockReturns ==
    /\ []C18_LockSafe
    /\ \A p \in Procs : InLock(p) ~> ~InLock(p)

C18_Witness ==
    /\ Returned("p") /\ lk["p"].err = NoErr /\ lk["p"].flocked
    /\ lk["p"].n = 2
    /\ Returned("q")
    /\ lk["q"].err = <<"failed to acquire ipset lock: ", ErrWaitTimeout>>
    /\ lk["q"].t = 2000
    /\ lk["q"].lock = "closed"

=============================================================================
